---- MODULE Spec2Model ----
(***************************************************************************)
(* Request handlers of the e-commerce catalog controllers                  *)
(* (ProductController, TaxController, AttributeController) as a state      *)
(* machine.  A handler runs synchronously up to its `await` on the ORM     *)
(* call; the continuation runs when the database settles the call.         *)
(* Other requests may start or finish between the two halves.              *)
(***************************************************************************)
EXTENDS Integers, Sequences, FiniteSets, TLC

(***************************************************************************)
(* Bounds of the model.                                                    *)
(***************************************************************************)
\* requests that may be suspended at their await at the same time
MaxInflight == 2
\* getAllProducts requests served over the life of the process
MaxPush == 2
\* rows of the product table
MaxProducts == 3

(***************************************************************************)
(* JavaScript values.  A query-string or path value is either absent       *)
(* (undefined) or a string, kept as a sequence of characters so that       *)
(* Number(), parseInt() and template interpolation are computed from the   *)
(* characters.  Numbers are NaN, +/-Infinity or a rational n/d in lowest   *)
(* terms (every double the handlers can produce from the inputs drawn      *)
(* here is an exact small rational).  -0 is identified with 0.             *)
(***************************************************************************)
Undefined == [t |-> "undefined"]
Str(chars) == [t |-> "string", s |-> chars]
NaN == [t |-> "number", k |-> "nan", n |-> 0, d |-> 1]
Infinity(sign) == [t |-> "number", k |-> "inf", n |-> sign, d |-> 1]

Abs(i) == IF i < 0 THEN -i ELSE i

RECURSIVE GCD(_, _)
GCD(a, b) == IF b = 0 THEN a ELSE GCD(b, a % b)

\* the rational n/d, d # 0, in lowest terms with a positive denominator
Rat(n, d) ==
    LET g == GCD(Abs(n), Abs(d))
        s == IF d < 0 THEN -1 ELSE 1
    IN [t |-> "number", k |-> "fin", n |-> (s * n) \div g, d |-> (s * d) \div g]

Num(i) == Rat(i, 1)

IsFinite(x) == x.t = "number" /\ x.k = "fin"
IsInteger(x) == IsFinite(x) /\ x.d = 1
Sign(x) == IF x.n > 0 THEN 1 ELSE IF x.n < 0 THEN -1 ELSE 0

Digits == <<"0", "1", "2", "3", "4", "5", "6", "7", "8", "9">>
IsDigit(c) == \E i \in 1..10 : Digits[i] = c
DigitVal(c) == (CHOOSE i \in 1..10 : Digits[i] = c) - 1
IsSpace(c) == c = " "

RECURSIVE Pow10(_)
Pow10(k) == IF k = 0 THEN 1 ELSE 10 * Pow10(k - 1)

\* value of a sequence of decimal digits
RECURSIVE DigitsVal(_)
DigitsVal(s) ==
    IF s = <<>> THEN 0
    ELSE 10 * DigitsVal(SubSeq(s, 1, Len(s) - 1)) + DigitVal(s[Len(s)])

AllDigits(s) == \A i \in 1..Len(s) : IsDigit(s[i])

\* length of the longest prefix of s made of digits
RECURSIVE DigitPrefixLen(_)
DigitPrefixLen(s) ==
    IF s = <<>> \/ ~IsDigit(Head(s)) THEN 0 ELSE 1 + DigitPrefixLen(Tail(s))

RECURSIVE TrimLeft(_)
TrimLeft(s) == IF s # <<>> /\ IsSpace(Head(s)) THEN TrimLeft(Tail(s)) ELSE s

RECURSIVE TrimRight(_)
TrimRight(s) ==
    IF s # <<>> /\ IsSpace(s[Len(s)]) THEN TrimRight(SubSeq(s, 1, Len(s) - 1)) ELSE s

\* the value of  int . frac  with that sign; "." alone is no literal
Fraction(sgn, int, frac) ==
    IF ~AllDigits(frac) \/ Len(int) + Len(frac) = 0 THEN NaN
    ELSE Rat(sgn * (DigitsVal(int) * Pow10(Len(frac)) + DigitsVal(frac)),
             Pow10(Len(frac)))

\* the value of the digits  int  followed by  rest : nothing, or a point and
\* the digits of the fraction
DecimalValue(sgn, int, rest) ==
    IF rest = <<>> THEN (IF int = <<>> THEN NaN ELSE Num(sgn * DigitsVal(int)))
    ELSE IF Head(rest) # "." THEN NaN
    ELSE Fraction(sgn, int, Tail(rest))

\* an unsigned decimal literal cut after its first ip characters
DecimalParts(sgn, body, ip) ==
    DecimalValue(sgn, SubSeq(body, 1, ip), SubSeq(body, ip + 1, Len(body)))

\* StrDecimalLiteral: digits [. digits]  or  . digits
DecimalLiteral(sgn, body) == DecimalParts(sgn, body, DigitPrefixLen(body))

\* the characters after an optional sign
Unsigned(s) == IF s # <<>> /\ Head(s) \in {"-", "+"} THEN Tail(s) ELSE s

\* -1 when the characters start with a minus sign
SignOf(s) == IF s # <<>> /\ Head(s) = "-" THEN -1 ELSE 1

\* a string without surrounding blanks as a number: empty is 0
TrimmedToNumber(s) ==
    IF s = <<>> THEN Num(0) ELSE DecimalLiteral(SignOf(s), Unsigned(s))

\* StringToNumber of the language: blank is 0, an optionally signed decimal
\* literal  digits [. digits]  or  . digits  is its value, anything else NaN
\* (exponents, hex literals and "Infinity" are not in the alphabet drawn).
StringToNumber(chars) == TrimmedToNumber(TrimRight(TrimLeft(chars)))

\* ToNumber: undefined is NaN, a string is parsed, a number is itself
ToNumber(v) ==
    CASE v.t = "undefined" -> NaN
      [] v.t = "string" -> StringToNumber(v.s)
      [] OTHER -> v

\* the global isNaN(): true when the argument coerces to NaN
isNaN(v) == ToNumber(v).k = "nan"

\* truthiness: undefined, "", 0 and NaN are falsy
Truthy(v) ==
    CASE v.t = "undefined" -> FALSE
      [] v.t = "string" -> v.s # <<>>
      [] OTHER -> ~(v.k = "nan" \/ (v.k = "fin" /\ v.n = 0))

\* a || b
Or(a, b) == IF Truthy(a) THEN a ELSE b

\* destructuring default  { x = dflt } : only undefined takes the default
Default(v, dflt) == IF v.t = "undefined" THEN dflt ELSE v

RECURSIVE NatToChars(_)
NatToChars(i) ==
    IF i < 10 THEN <<Digits[i + 1]>> ELSE NatToChars(i \div 10) \o <<Digits[(i % 10) + 1]>>

\* decimal digits of r/d, 0 <= r < d, for a terminating fraction
RECURSIVE FracChars(_, _)
FracChars(r, d) ==
    IF r = 0 THEN <<>>
    ELSE <<Digits[((10 * r) \div d) + 1]>> \o FracChars((10 * r) % d, d)

\* ToString of a value, as template interpolation `${v}` applies it
ToChars(v) ==
    CASE v.t = "undefined" -> <<"u", "n", "d", "e", "f", "i", "n", "e", "d">>
      [] v.t = "string" -> v.s
      [] v.k = "nan" -> <<"N", "a", "N">>
      [] v.k = "inf" ->
           (IF v.n < 0 THEN <<"-">> ELSE <<>>)
               \o <<"I", "n", "f", "i", "n", "i", "t", "y">>
      [] OTHER ->
           (IF v.n < 0 THEN <<"-">> ELSE <<>>)
               \o NatToChars(Abs(v.n) \div v.d)
               \o (IF v.d = 1 THEN <<>> ELSE <<".">> \o FracChars(Abs(v.n) % v.d, v.d))

\* the integer the digits spell, NaN when there are none
IntegerOf(sgn, digits) == IF digits = <<>> THEN NaN ELSE Num(sgn * DigitsVal(digits))

\* the longest run of digits the characters start with
DigitPrefix(body) == SubSeq(body, 1, DigitPrefixLen(body))

\* parseInt of characters without leading blanks
ParseIntChars(s) == IntegerOf(SignOf(s), DigitPrefix(Unsigned(s)))

\* parseInt(v, 10): the argument as a string, leading blanks skipped, an
\* optional sign, then the longest run of digits; NaN when there is none
parseInt(v) == ParseIntChars(TrimLeft(ToChars(v)))

\* x - y  on numbers (operands finite or NaN in every use)
NumSub(x, y) ==
    IF x.k = "nan" \/ y.k = "nan" THEN NaN
    ELSE IF x.k = "inf" THEN (IF y.k = "inf" /\ y.n = x.n THEN NaN ELSE x)
    ELSE IF y.k = "inf" THEN Infinity(-y.n)
    ELSE Rat(x.n * y.d - y.n * x.d, x.d * y.d)

\* a - b : both operands are converted to numbers
Sub(a, b) == NumSub(ToNumber(a), ToNumber(b))

\* x * y  on numbers
NumMul(x, y) ==
    IF x.k = "nan" \/ y.k = "nan" THEN NaN
    ELSE IF x.k = "inf" \/ y.k = "inf"
         THEN (IF Sign(x) * Sign(y) = 0 THEN NaN ELSE Infinity(Sign(x) * Sign(y)))
    ELSE Rat(x.n * y.n, x.d * y.d)

\* a * b
Mul(a, b) == NumMul(ToNumber(a), ToNumber(b))

\* x / y  on numbers: 0/0 is NaN, x/0 is +/-Infinity
NumDiv(x, y) ==
    IF x.k = "nan" \/ y.k = "nan" THEN NaN
    ELSE IF x.k = "inf" THEN (IF y.k = "inf" THEN NaN
                              ELSE Infinity(x.n * (IF Sign(y) < 0 THEN -1 ELSE 1)))
    ELSE IF y.k = "inf" THEN Num(0)
    ELSE IF y.n = 0 THEN (IF x.n = 0 THEN NaN ELSE Infinity(Sign(x)))
    ELSE Rat(x.n * y.d, x.d * y.n)

\* a / b
Div(a, b) == NumDiv(ToNumber(a), ToNumber(b))

\* Math.ceil
Ceil(x) ==
    IF ~IsFinite(x) THEN x
    ELSE LET q == x.n \div x.d  \* floor, d > 0
         IN Num(IF x.n % x.d = 0 THEN q ELSE q + 1)


(***************************************************************************)
(* State.                                                                  *)
(***************************************************************************)
VARIABLES
    productsQueryMap,  \* the module-level query map of product.controller.js
    Product,           \* the product table, in primary-key order
    inflight,          \* per slot: the request suspended at its await, or Idle
    last               \* what the step just taken emitted: a finished request, if any

vars == <<productsQueryMap, Product, inflight, last>>

Slots == 1..MaxInflight
Idle == [h |-> "idle"]
Null == [t |-> "null"]

(***************************************************************************)
(* The database behind the ORM.  Only the product table varies (its size   *)
(* is chosen at start-up); the other tables are fixed and refer to         *)
(* products by id.  Product names are character sequences because          *)
(* searchProduct matches on them.                                          *)
(***************************************************************************)
ProductNames == << <<"a", "b">>, <<"a">>, <<"b", "a", "b">>, <<"c">> >>
ProductRow(i) ==
    [product_id |-> i, name |-> ProductNames[((i - 1) % Len(ProductNames)) + 1]]
Catalog == [i \in 1..MaxProducts |-> ProductRow(i)]

DepartmentTable ==
    << [department_id |-> 1, name |-> "Regional"],
       [department_id |-> 2, name |-> "Nature"] >>
CategoryTable ==
    << [category_id |-> 1, department_id |-> 1, name |-> "French"],
       [category_id |-> 2, department_id |-> 1, name |-> "Italian"],
       [category_id |-> 3, department_id |-> 2, name |-> "Animal"] >>
\* product 1 is in categories 2 and 1 (in that row order), product 2 in category 2
ProductCategoryTable ==
    << [product_id |-> 1, category_id |-> 2],
       [product_id |-> 1, category_id |-> 1],
       [product_id |-> 2, category_id |-> 2] >>
AttributeTable ==
    << [attribute_id |-> 1, name |-> "Size"],
       [attribute_id |-> 2, name |-> "Color"] >>
AttributeValueTable ==
    << [attribute_value_id |-> 1, attribute_id |-> 1, value |-> "S"],
       [attribute_value_id |-> 2, attribute_id |-> 1, value |-> "M"],
       [attribute_value_id |-> 3, attribute_id |-> 2, value |-> "Red"] >>
ProductAttributeTable ==
    << [product_id |-> 1, attribute_value_id |-> 1],
       [product_id |-> 1, attribute_value_id |-> 3],
       [product_id |-> 2, attribute_value_id |-> 2] >>
\* two reviews of product 1 and one whose product 7 is no longer in the table
ReviewTable ==
    << [review_id |-> 1, product_id |-> 1, review |-> "good", rating |-> 5,
        created_on |-> 10],
       [review_id |-> 2, product_id |-> 1, review |-> "poor", rating |-> 1,
        created_on |-> 11],
       [review_id |-> 3, product_id |-> 7, review |-> "old", rating |-> 3,
        created_on |-> 12] >>
TaxTable ==
    << [tax_id |-> 1, tax_type |-> "Sales Tax", tax_percentage |-> 8],
       [tax_id |-> 2, tax_type |-> "No Tax", tax_percentage |-> 0] >>

\* a column compared with a request value, as SQL compares a number with a
\* quoted literal: numerically
SqlEq(column, v) == ToNumber(v) = Num(column)

\* the first row whose key column equals the value, or null
FirstOrNull(rows) == IF rows = <<>> THEN Null ELSE Head(rows)

Min(a, b) == IF a < b THEN a ELSE b

\* LIMIT offset, limit  over a row sequence
Window(rows, offset, limit) ==
    SubSeq(rows, offset + 1, Min(Len(rows), offset + limit))

\* LIMIT takes non-negative integer constants; anything else is refused by
\* the database and the call rejects
WellFormedWindow(options) ==
    /\ IsInteger(options.limit) /\ options.limit.n >= 0
    /\ IsInteger(options.offset) /\ options.offset.n >= 0

\* s occurs in t as a contiguous run
IsSubstring(s, t) ==
    \E i \in 0..(Len(t) - Len(s)) : SubSeq(t, i + 1, i + Len(s)) = s

\* the product-name condition of a where clause  { name: { [op]: value } }
NameMatches(where, row) ==
    IF where.op = "eq" THEN row.name = where.value
    ELSE IsSubstring(where.value, row.name)

ProductById(id) ==
    LET Hit(r) == r.product_id = id
    IN FirstOrNull(SelectSeq(Product, Hit))

CategoryById(id) ==
    LET Hit(r) == r.category_id = id
    IN FirstOrNull(SelectSeq(CategoryTable, Hit))

AttributeValueById(id) ==
    LET Hit(r) == r.attribute_value_id = id
    IN FirstOrNull(SelectSeq(AttributeValueTable, Hit))

AttributeById(id) ==
    LET Hit(r) == r.attribute_id = id
    IN FirstOrNull(SelectSeq(AttributeTable, Hit))

Table(model) ==
    CASE model = "Product" -> Product
      [] model = "Department" -> DepartmentTable
      [] model = "Category" -> CategoryTable
      [] model = "ProductCategory" -> ProductCategoryTable
      [] model = "Attribute" -> AttributeTable
      [] model = "AttributeValue" -> AttributeValueTable
      [] model = "ProductAttribute" -> ProductAttributeTable
      [] model = "Review" -> ReviewTable
      [] model = "Tax" -> TaxTable

PrimaryKey(model, row) ==
    CASE model = "Product" -> row.product_id
      [] model = "Department" -> row.department_id
      [] model = "Category" -> row.category_id
      [] model = "Attribute" -> row.attribute_id
      [] model = "Tax" -> row.tax_id


(***************************************************************************)
(* ORM calls.  A call names the model, the finder, the primary key (for    *)
(* findByPk) and the options object as it is at the time of the call.      *)
(***************************************************************************)
OrmCall(model, method, pk, options) ==
    [model |-> model, method |-> method, pk |-> pk, options |-> options]

NoOptions == [none |-> TRUE]

Exists(model, v) ==
    \E i \in 1..Len(Table(model)) : SqlEq(PrimaryKey(model, Table(model)[i]), v)

\* rows of a child table whose product exists (the schema's foreign key)
WithProduct(rows) ==
    LET Kept(r) == ProductById(r.product_id) # Null
    IN SelectSeq(rows, Kept)

\* Model.findByPk(pk [, { include: AttributeValue }])
FindByPk(call) ==
    LET Hit(r) == SqlEq(PrimaryKey(call.model, r), call.pk)
        row == FirstOrNull(SelectSeq(Table(call.model), Hit))
        Mine(v) == v.attribute_id = row.attribute_id
        Shown(v) == [value |-> v.value, attribute_value_id |-> v.attribute_value_id]
        mine == SelectSeq(AttributeValueTable, Mine)
    IN IF row = Null \/ "include" \notin DOMAIN call.options THEN row
       ELSE [attribute_id |-> row.attribute_id, name |-> row.name,
             AttributeValues |-> [k \in 1..Len(mine) |-> Shown(mine[k])]]

\* ProductCategory.findAll with its joins
FindProductCategories(options) ==
    LET rows == WithProduct(ProductCategoryTable)
        WithProductRow(r) == [product |-> ProductById(r.product_id)]
        WithCategoryRow(r) == [Category |-> CategoryById(r.category_id)]
        InCategory(r) == SqlEq(r.category_id, options.where.category_id)
        InDepartment(r) ==
            SqlEq(CategoryById(r.category_id).department_id,
                  options.include[1].where.department_id)
        OfProduct(r) == SqlEq(r.product_id, options.where.product_id)
        picked ==
            IF "where" \notin DOMAIN options THEN SelectSeq(rows, InDepartment)
            ELSE IF "category_id" \in DOMAIN options.where
            THEN SelectSeq(rows, InCategory)
            ELSE SelectSeq(rows, OfProduct)
    IN IF "where" \in DOMAIN options /\ "category_id" \notin DOMAIN options.where
       THEN [k \in 1..Len(picked) |-> WithCategoryRow(picked[k])]
       ELSE Window([k \in 1..Len(picked) |-> WithProductRow(picked[k])],
                   options.offset.n, options.limit.n)

\* ProductAttribute.findAll({ where: { product_id }, include: AttributeValue
\* including its Attribute as attribute_type })
FindProductAttributes(options) ==
    LET OfProduct(r) == SqlEq(r.product_id, options.where.product_id)
        Joined(r) ==
            LET v == AttributeValueById(r.attribute_value_id)
            IN [attribute_value_id |-> r.attribute_value_id,
                AttributeValue |->
                    [value |-> v.value,
                     attribute_type |-> [name |-> AttributeById(v.attribute_id).name]]]
        mine == SelectSeq(WithProduct(ProductAttributeTable), OfProduct)
    IN [k \in 1..Len(mine) |-> Joined(mine[k])]

\* Review.findAll({ where: { product_id }, include: Product }): the include
\* is not required, so it is a left outer join and a review whose product is
\* missing comes back with Product null
FindReviews(options) ==
    LET OfProduct(r) == SqlEq(r.product_id, options.where.product_id)
        ProductOf(r) ==
            IF ProductById(r.product_id) = Null THEN Null
            ELSE [name |-> ProductById(r.product_id).name]
        Joined(r) ==
            [dataValues |->
                [created_on |-> r.created_on, review |-> r.review, rating |-> r.rating,
                 Product |-> ProductOf(r)]]
        mine == SelectSeq(ReviewTable, OfProduct)
    IN [k \in 1..Len(mine) |-> Joined(mine[k])]

\* Product.findAll({ where: { name }, limit, offset })
FindProducts(options) ==
    LET Hit(r) == NameMatches(options.where.name, r)
    IN Window(SelectSeq(Product, Hit), options.offset.n, options.limit.n)

\* Model.findAll() and Category.findAll({ where: { department_id } })
FindRows(call) ==
    LET InDepartment(r) == SqlEq(r.department_id, call.options.where.department_id)
    IN IF "where" \in DOMAIN call.options
       THEN SelectSeq(Table(call.model), InDepartment)
       ELSE Table(call.model)

\* the database accepts the call (its LIMIT clause, when it has one, is legal)
Accepts(call) ==
    "limit" \in DOMAIN call.options => WellFormedWindow(call.options)

\* what the call resolves with when the database accepts it
DbResult(call) ==
    CASE call.method = "findByPk" -> FindByPk(call)
      [] call.method = "findAndCountAll" ->
           [rows |-> Window(Product, call.options.offset.n, call.options.limit.n),
            count |-> Len(Product)]
      [] call.model = "Product" -> FindProducts(call.options)
      [] call.model = "ProductCategory" -> FindProductCategories(call.options)
      [] call.model = "ProductAttribute" -> FindProductAttributes(call.options)
      [] call.model = "Review" -> FindReviews(call.options)
      [] OTHER -> FindRows(call)

DbError == [t |-> "error", name |-> "SequelizeDatabaseError"]
TypeError == [t |-> "error", name |-> "TypeError"]

(***************************************************************************)
(* Responses.  A request's outcome is the sequence of calls its handler    *)
(* made on res and next.                                                   *)
(***************************************************************************)
\* res.status(status).json(body) with an object for body
Json(status, body) ==
    [fn |-> "res.status.json", status |-> status, array |-> FALSE, body |-> body]
\* an array wrapped as { rows } before it is sent
JsonArray_AsRows(status, body) == Json(status, [rows |-> body])

\* res.status(status).json(body) with an array for body, kept as its items
JsonArray(status, body) ==
    [fn |-> "res.status.json", status |-> status, array |-> TRUE,
     body |-> [items |-> body]]
NextError(error) == [fn |-> "next", status |-> 0, array |-> FALSE, body |-> error]

\* { error: { status: 404, message: `${entity} with id ${id} does not exist` } }
NotFound(entity, id) ==
    [error |-> [status |-> 404,
                message |-> <<entity, " with id ">> \o ToChars(id)
                                \o <<" does not exist">>]]

CategoryNotFound == [error |-> [status |-> 404, message |-> <<"Category not found">>]]

BadQuery == [err |-> "Query parameters should be valid integer values", status |-> FALSE]
BadLength == [err |-> "description_length should be valid integer values", status |-> FALSE]

ThisWorks == [message |-> "this works"]

(***************************************************************************)
(* productsQueryMap and the pieces the product handlers share.             *)
(***************************************************************************)
Col(name) == [kind |-> "col", text |-> name, arg |-> <<>>, tail |-> ""]

BaseAttributes ==
    << Col("product_id"), Col("name"), Col("price"), Col("thumbnail"),
       Col("discounted_price"), Col("description") >>

\* sequelize.literal(`SUBSTRING(<column>, 1, ${length}) as description`)
SubstringLiteral(column, length) ==
    [kind |-> "literal", text |-> "SUBSTRING(" \o column \o ", 1, ",
     arg |-> ToChars(length), tail |-> ") as description"]

\* isNaN(page) || isNaN(limit) || isNaN(descriptionLength)
QueryInvalid(page, limit, descriptionLength) ==
    isNaN(page) \/ isNaN(limit) \/ isNaN(descriptionLength)

\* a search that ignores all_words and always matches by substring
SearchParam_AlwaysSubstring(allWords, queryString) ==
    [op |-> "substring", value |-> ToChars(queryString)]

\* allWords === 'on' ? { [Op.eq]: `${queryString}` } : { [Op.substring]: `${queryString}` }
SearchParam(allWords, queryString) ==
    IF allWords = Str(<<"o", "n">>)
    THEN [op |-> "eq", value |-> ToChars(queryString)]
    ELSE [op |-> "substring", value |-> ToChars(queryString)]

\* paginationMeta of getAllProducts
PaginationMeta(page, limit, count) ==
    [currentPage |-> parseInt(page),
     currentPageSize |-> parseInt(limit),
     totalPages |-> Ceil(Div(Num(count), limit)),
     totalRecords |-> count]

NoQuery ==
    [page |-> Undefined, limit |-> Undefined, description_length |-> Undefined,
     query_string |-> Undefined, all_words |-> Undefined]

\* a request: the handler, the path id, the query string, the handler's page
\* and limit locals, and the ORM calls it has issued
Request(h, id, query, page, limit, calls) ==
    [h |-> h, id |-> id, query |-> query, page |-> page, limit |-> limit,
     calls |-> calls]

NoOutcome == [req |-> Idle, out |-> <<>>, db |-> "none"]

\* a request is taken up once the response emitted before it has been sent
Quiet == last = NoOutcome

\* the handler returns without reaching an await: its response is emitted now
Answer(r, out) ==
    /\ Quiet
    /\ last' = [req |-> r, out |-> out, db |-> "none"]
    /\ UNCHANGED <<Product, inflight>>

\* the handler is suspended at its await, in the first free slot
Suspend(r) ==
    /\ Quiet
    /\ \E s \in Slots :
          /\ inflight[s] = Idle
          /\ \A t \in Slots : t < s => inflight[t] # Idle
          /\ inflight' = [inflight EXCEPT ![s] = r]
    /\ last' = NoOutcome
    /\ UNCHANGED Product


(***************************************************************************)
(* ProductController: the part of each handler that runs before its await. *)
(***************************************************************************)
\* a sqlQueryMap of getAllProducts whose offset is page * limit
AllProductsQuery_FromNextPage(attributes, page, limit, descriptionLength) ==
    [attributes |-> Append(attributes, SubstringLiteral("description", descriptionLength)),
     limit |-> parseInt(limit),
     offset |-> Mul(page, limit)]

\* sqlQueryMap of getAllProducts over the attributes array it was handed:
\* Object.assign({}, productsQueryMap) copies the reference to the array, so
\* the push lands in the array productsQueryMap holds
AllProductsQuery(attributes, page, limit, descriptionLength) ==
    [attributes |-> Append(attributes, SubstringLiteral("description", descriptionLength)),
     limit |-> parseInt(limit),
     offset |-> Mul(Sub(page, Num(1)), limit)]

getAllProducts(query) ==
    LET descriptionLength == query.description_length
        limit == Or(query.limit, Num(20))
        page == Or(query.page, Num(1))
        sqlQueryMap ==
            AllProductsQuery(productsQueryMap.attributes, page, limit, descriptionLength)
    IN IF QueryInvalid(page, limit, descriptionLength)
       THEN /\ Answer(Request("getAllProducts", Undefined, query, page, limit, <<>>),
                      <<Json(400, BadQuery)>>)
            /\ UNCHANGED productsQueryMap
       ELSE /\ Len(productsQueryMap.attributes) < Len(BaseAttributes) + MaxPush
            /\ productsQueryMap' =
                   [productsQueryMap EXCEPT !.attributes = sqlQueryMap.attributes]
            /\ Suspend(Request("getAllProducts", Undefined, query, page, limit,
                               <<OrmCall("Product", "findAndCountAll", Undefined,
                                         sqlQueryMap)>>))

\* sqlQueryMap of searchProduct: attributes.concat makes a new array
SearchQuery(attributes, page, limit, descriptionLength, allWords, queryString) ==
    [attributes |->
         attributes \o <<SubstringLiteral("description", Or(descriptionLength, Num(200)))>>,
     where |-> [name |-> SearchParam(allWords, queryString)],
     limit |-> parseInt(limit),
     offset |-> Mul(Sub(page, Num(1)), limit)]

searchProduct(query) ==
    LET queryString == query.query_string
        allWords == query.all_words
        descriptionLength == Default(query.description_length, Num(200))
        limit == Or(query.limit, Num(20))
        page == Or(query.page, Num(1))
        sqlQueryMap ==
            SearchQuery(productsQueryMap.attributes, page, limit, descriptionLength,
                        allWords, queryString)
    IN /\ UNCHANGED productsQueryMap
       /\ IF QueryInvalid(page, limit, descriptionLength)
          THEN Answer(Request("searchProduct", Undefined, query, page, limit, <<>>),
                      <<Json(400, BadQuery)>>)
          ELSE Suspend(Request("searchProduct", Undefined, query, page, limit,
                               <<OrmCall("Product", "findAll", Undefined, sqlQueryMap)>>))

\* an offset computed from page and limit as they arrive
OffsetOf_NoDefault(page, limit) == Mul(Sub(page, Num(1)), limit)

\* const offset = ((page || 1) - 1) * (limit || 20)
OffsetOf(page, limit) == Mul(Sub(Or(page, Num(1)), Num(1)), Or(limit, Num(20)))

\* limit ? parseInt(limit, 10) : 20
LimitOf(limit) == IF Truthy(limit) THEN parseInt(limit) ELSE Num(20)

\* queryMap of getProductsByCategory: the spread copies the attributes
CategoryQuery(attributes, category_id, page, limit, descriptionLength) ==
    [limit |-> LimitOf(limit),
     offset |-> OffsetOf(page, limit),
     where |-> [category_id |-> category_id],
     include |->
         << [model |-> "Product", as |-> "product",
             attributes |->
                 attributes
                     \o <<SubstringLiteral("description",
                                           Or(descriptionLength, Num(200)))>>] >>]

getProductsByCategory(category_id, query) ==
    LET descriptionLength == Default(query.description_length, Num(200))
        page == Default(query.page, Num(1))
        limit == Default(query.limit, Num(20))
        queryMap ==
            CategoryQuery(productsQueryMap.attributes, category_id, page, limit,
                          descriptionLength)
    IN /\ UNCHANGED productsQueryMap
       /\ IF QueryInvalid(page, limit, descriptionLength)
          THEN Answer(Request("getProductsByCategory", category_id, query, page, limit,
                              <<>>),
                      <<Json(400, BadQuery)>>)
          ELSE Suspend(Request("getProductsByCategory", category_id, query, page, limit,
                               <<OrmCall("ProductCategory", "findAll", Undefined,
                                         queryMap)>>))

\* queryMap of getProductsByDepartment
DepartmentQuery(attributes, department_id, page, limit, descriptionLength) ==
    [limit |-> LimitOf(limit),
     offset |-> OffsetOf(page, limit),
     attributes |-> <<>>,
     include |->
         << [model |-> "Category", as |-> "Category",
             where |-> [department_id |-> department_id],
             attributes |-> <<>>],
            [model |-> "Product", as |-> "product",
             where |-> [none |-> TRUE],
             attributes |->
                 attributes
                     \o <<SubstringLiteral("product.description",
                                           Or(descriptionLength, Num(200)))>>] >>]

getProductsByDepartment(department_id, query) ==
    LET descriptionLength == Default(query.description_length, Num(200))
        page == Default(query.page, Num(1))
        limit == Default(query.limit, Num(20))
        queryMap ==
            DepartmentQuery(productsQueryMap.attributes, department_id, page, limit,
                            descriptionLength)
    IN /\ UNCHANGED productsQueryMap
       /\ IF QueryInvalid(page, limit, descriptionLength)
          THEN Answer(Request("getProductsByDepartment", department_id, query, page,
                              limit, <<>>),
                      <<Json(400, BadQuery)>>)
          ELSE Suspend(Request("getProductsByDepartment", department_id, query, page,
                               limit,
                               <<OrmCall("ProductCategory", "findAll", Undefined,
                                         queryMap)>>))

\* sqlQueryMap of getProduct
ProductQuery(attributes, descriptionLength) ==
    [attributes |->
         attributes
             \o << Col("image"), Col("display"), Col("image_2"),
                   SubstringLiteral("description", descriptionLength) >>]

getProduct(productId, query) ==
    LET descriptionLength == Default(query.description_length, Num(200))
        sqlQueryMap == ProductQuery(productsQueryMap.attributes, descriptionLength)
    IN /\ UNCHANGED productsQueryMap
       /\ IF isNaN(descriptionLength)
          THEN Answer(Request("getProduct", productId, query, Undefined, Undefined, <<>>),
                      <<Json(400, BadLength)>>)
          ELSE Suspend(Request("getProduct", productId, query, Undefined, Undefined,
                               <<OrmCall("Product", "findByPk", productId, sqlQueryMap)>>))

\* the handlers that take no query string: they issue their one call at once
Issue(h, id, call) ==
    /\ UNCHANGED productsQueryMap
    /\ Suspend(Request(h, id, NoQuery, Undefined, Undefined, <<call>>))

getAllDepartments ==
    Issue("getAllDepartments", Undefined,
          OrmCall("Department", "findAll", Undefined, NoOptions))

getDepartment(departmentId) ==
    Issue("getDepartment", departmentId,
          OrmCall("Department", "findByPk", departmentId, NoOptions))

getAllCategories ==
    Issue("getAllCategories", Undefined,
          OrmCall("Category", "findAll", Undefined, NoOptions))

getSingleCategory(categoryId) ==
    Issue("getSingleCategory", categoryId,
          OrmCall("Category", "findByPk", categoryId, NoOptions))

getDepartmentCategories(department_id) ==
    Issue("getDepartmentCategories", department_id,
          OrmCall("Category", "findAll", Undefined,
                  [where |-> [department_id |-> department_id]]))

getProductCategories(product_id) ==
    Issue("getProductCategories", product_id,
          OrmCall("ProductCategory", "findAll", Undefined,
                  [attributes |-> <<>>,
                   where |-> [product_id |-> product_id],
                   include |->
                       << [model |-> "Category",
                           attributes |-> <<Col("name"), Col("category_id"), Col("department_id")>>] >>]))

getProductReviews(product_id) ==
    Issue("getProductReviews", product_id,
          OrmCall("Review", "findAll", Undefined,
                  [where |-> [product_id |-> product_id],
                   attributes |-> <<Col("created_on"), Col("review"), Col("rating")>>,
                   include |-> << [model |-> "Product", attributes |-> <<Col("name")>>] >>]))

(***************************************************************************)
(* TaxController, in its two versions.                                     *)
(***************************************************************************)
getAllTax == Issue("getAllTax", Undefined, OrmCall("Tax", "findAll", Undefined, NoOptions))

getSingleTax(taxId) ==
    Issue("getSingleTax", taxId, OrmCall("Tax", "findByPk", taxId, NoOptions))

\* the version that was left unwritten: no query, a fixed answer
getSingleTaxStub(taxId) ==
    /\ UNCHANGED productsQueryMap
    /\ Answer(Request("getSingleTaxStub", taxId, NoQuery, Undefined, Undefined, <<>>),
              <<Json(200, ThisWorks)>>)

(***************************************************************************)
(* AttributeController, in its two versions.                               *)
(***************************************************************************)
getAllAttributes ==
    Issue("getAllAttributes", Undefined,
          OrmCall("Attribute", "findAll", Undefined, NoOptions))

getSingleAttribute(attributeId) ==
    Issue("getSingleAttribute", attributeId,
          OrmCall("Attribute", "findByPk", attributeId, NoOptions))

getAttributeValues(attributeId) ==
    Issue("getAttributeValues", attributeId,
          OrmCall("Attribute", "findByPk", attributeId,
                  [include |->
                       << [model |-> "AttributeValue",
                           attributes |-> <<Col("value"), Col("attribute_value_id")>>] >>]))

getProductAttributes(productId) ==
    Issue("getProductAttributes", productId,
          OrmCall("ProductAttribute", "findAll", Undefined,
                  [where |-> [product_id |-> productId],
                   include |->
                       << [model |-> "AttributeValue", attributes |-> <<Col("value")>>,
                           include |->
                               << [model |-> "Attribute", attributes |-> <<Col("name")>>,
                                   as |-> "attribute_type"] >>] >>,
                   attributes |-> <<Col("attribute_value_id")>>]))

\* the version that was left unwritten
getProductAttributesStub(productId) ==
    /\ UNCHANGED productsQueryMap
    /\ Answer(Request("getProductAttributesStub", productId, NoQuery, Undefined,
                      Undefined, <<>>),
              <<Json(200, ThisWorks)>>)

(***************************************************************************)
(* The part of each handler that runs after its await resolved.            *)
(***************************************************************************)
\* a detail handler that answers 200 with whatever findByPk returned
RowOr404_Always200(row, entity, id) == <<Json(200, row)>>

\* if (row) 200 row; else 404 `${entity} with id ${id} does not exist`
RowOr404(row, entity, id) ==
    IF row # Null THEN <<Json(200, row)>> ELSE <<Json(404, NotFound(entity, id))>>

\* getAttributeValues answers with the AttributeValues of the row it found
ValuesOr404(row, id) ==
    IF row # Null THEN <<JsonArray(200, row.AttributeValues)>>
    ELSE <<Json(404, NotFound("Attribute", id))>>

\* products.map(x => x.product)
ProductsOf(rows) ==
    LET product(x) == x.product
    IN [k \in 1..Len(rows) |-> product(rows[k])]

\* a getProductCategories that answers an unknown product with 200 and null
FirstCategoryOr404_Null(categories) ==
    IF Len(categories) > 0 THEN <<Json(200, categories[1].Category)>>
    ELSE <<Json(200, Null)>>

\* a getProductCategories that answers with the category of the last row
FirstCategoryOr404_Last(categories) ==
    IF Len(categories) > 0 THEN <<Json(200, categories[Len(categories)].Category)>>
    ELSE <<Json(404, CategoryNotFound)>>

\* categories.length > 0 ? 200 categories[0].Category : 404 Category not found
FirstCategoryOr404(categories) ==
    IF Len(categories) > 0 THEN <<Json(200, categories[1].Category)>>
    ELSE <<Json(404, CategoryNotFound)>>

\* the map of getProductAttributes; destructuring a missing AttributeValue or
\* attribute_type throws, and the catch forwards the TypeError
AttributesInProduct(productAttributes) ==
    LET Broken(x) == x.AttributeValue = Null \/ x.AttributeValue.attribute_type = Null
        Shaped(x) == [attribute_value_id |-> x.attribute_value_id,
                      attribute_value |-> x.AttributeValue.value,
                      attribute_name |-> x.AttributeValue.attribute_type.name]
    IN IF \E i \in 1..Len(productAttributes) : Broken(productAttributes[i])
       THEN <<NextError(TypeError)>>
       ELSE <<JsonArray(200, [k \in 1..Len(productAttributes) |->
                                Shaped(productAttributes[k])])>>

\* a map of getProductReviews that drops the Product and adds no name
ProductReviews_Unnamed(reviews) ==
    LET Shaped(x) == [created_on |-> x.dataValues.created_on,
                      review |-> x.dataValues.review,
                      rating |-> x.dataValues.rating]
    IN <<JsonArray(200, [k \in 1..Len(reviews) |-> Shaped(reviews[k])])>>

\* the map of getProductReviews; product.name of a missing Product throws
ProductReviews(reviews) ==
    LET Broken(x) == x.dataValues.Product = Null
        Shaped(x) == [created_on |-> x.dataValues.created_on,
                      review |-> x.dataValues.review,
                      rating |-> x.dataValues.rating,
                      name |-> x.dataValues.Product.name]
    IN IF \E i \in 1..Len(reviews) : Broken(reviews[i])
       THEN <<NextError(TypeError)>>
       ELSE <<JsonArray(200, [k \in 1..Len(reviews) |-> Shaped(reviews[k])])>>

Then(r, result) ==
    CASE r.h = "getAllProducts" ->
           <<Json(200, [paginationMeta |->
                            PaginationMeta(r.page, r.limit, result.count),
                        rows |-> result.rows,
                        status |-> TRUE])>>
      [] r.h = "searchProduct" -> <<JsonArray(200, result)>>
      [] r.h \in {"getProductsByCategory", "getProductsByDepartment"} ->
           <<Json(200, [rows |-> ProductsOf(result)])>>
      [] r.h = "getProduct" -> RowOr404(result, "Product", r.id)
      [] r.h = "getDepartment" -> RowOr404(result, "Department", r.id)
      [] r.h = "getSingleCategory" -> RowOr404(result, "Category", r.id)
      [] r.h = "getSingleTax" -> RowOr404(result, "Tax", r.id)
      [] r.h = "getSingleAttribute" -> RowOr404(result, "Attribute", r.id)
      [] r.h = "getAttributeValues" -> ValuesOr404(result, r.id)
      [] r.h \in {"getAllCategories", "getDepartmentCategories"} ->
           <<Json(200, [rows |-> result])>>
      [] r.h \in {"getAllDepartments", "getAllTax", "getAllAttributes"} ->
           <<JsonArray(200, result)>>
      [] r.h = "getProductCategories" -> FirstCategoryOr404(result)
      [] r.h = "getProductAttributes" -> AttributesInProduct(result)
      [] r.h = "getProductReviews" -> ProductReviews(result)

\* a catch that answers 500 and then also forwards the error
Catch_RespondsAndForwards(r, error) == <<Json(500, error), NextError(error)>>

\* a catch that answers 500 with the error instead of forwarding it
Catch_Answers500(r, error) == <<Json(500, error)>>

\* catch (error) { return next(error); }
Catch(r, error) == <<NextError(error)>>

\* the database resolves the call of the request in slot s
DbResolve(s) ==
    /\ inflight[s] # Idle
    /\ Accepts(inflight[s].calls[1])
    /\ last' = [req |-> inflight[s],
                out |-> Then(inflight[s], DbResult(inflight[s].calls[1])),
                db |-> "resolved"]
    /\ inflight' = [inflight EXCEPT ![s] = Idle]
    /\ UNCHANGED <<productsQueryMap, Product>>

\* the database rejects the call of the request in slot s
DbReject(s) ==
    /\ inflight[s] # Idle
    /\ last' = [req |-> inflight[s], out |-> Catch(inflight[s], DbError),
                db |-> "rejected"]
    /\ inflight' = [inflight EXCEPT ![s] = Idle]
    /\ UNCHANGED <<productsQueryMap, Product>>

\* the emitted response has left the process
Sent ==
    /\ ~Quiet
    /\ last' = NoOutcome
    /\ UNCHANGED <<productsQueryMap, Product, inflight>>

(***************************************************************************)
(* Inputs.                                                                 *)
(***************************************************************************)
\* path ids: two that exist in every non-empty table and one that never does
PathIds == {Str(<<"1">>), Str(<<"9">>)}

\* product ids asked for reviews: those, and the id of a product that is gone
ReviewIds == PathIds \cup {Str(<<"7">>)}

\* query strings of the requests that run concurrently
Queries ==
    [page : {Undefined},
     limit : {Undefined},
     description_length : {Undefined, Str(<<"5">>), Str(<<"x">>)},
     query_string : {Str(<<"a">>)},
     all_words : {Undefined}]

Init ==
    /\ productsQueryMap = [attributes |-> BaseAttributes]
    /\ Product = Catalog
    /\ inflight = [s \in Slots |-> Idle]
    /\ last = NoOutcome

Next ==
    \/ Quiet /\ \E q \in Queries : getAllProducts(q)
    \/ Quiet /\ \E q \in Queries : searchProduct(q)
    \/ Quiet /\ \E id \in PathIds, q \in Queries : getProductsByCategory(id, q)
    \/ Quiet /\ \E id \in PathIds, q \in Queries : getProductsByDepartment(id, q)
    \/ Quiet /\ \E id \in PathIds, q \in Queries : getProduct(id, q)
    \/ Quiet /\ getAllDepartments
    \/ Quiet /\ \E id \in PathIds : getDepartment(id)
    \/ Quiet /\ getAllCategories
    \/ Quiet /\ \E id \in PathIds : getSingleCategory(id)
    \/ Quiet /\ \E id \in PathIds : getDepartmentCategories(id)
    \/ Quiet /\ \E id \in PathIds : getProductCategories(id)
    \/ Quiet /\ \E id \in ReviewIds : getProductReviews(id)
    \/ Quiet /\ getAllTax
    \/ Quiet /\ \E id \in PathIds : getSingleTax(id)
    \/ Quiet /\ \E id \in PathIds : getSingleTaxStub(id)
    \/ Quiet /\ getAllAttributes
    \/ Quiet /\ \E id \in PathIds : getSingleAttribute(id)
    \/ Quiet /\ \E id \in PathIds : getAttributeValues(id)
    \/ Quiet /\ \E id \in PathIds : getProductAttributes(id)
    \/ Quiet /\ \E id \in PathIds : getProductAttributesStub(id)
    \/ \E s \in Slots : DbResolve(s)
    \/ \E s \in Slots : DbReject(s)
    \/ Sent

Spec == Init /\ [][Next]_vars


(***************************************************************************)
(* The query-string handlers one request at a time, over every shape of    *)
(* query value (absent, empty, integer, zero, fraction, negative, text)    *)
(* and every size of the product table.                                    *)
(***************************************************************************)
PageValues ==
    {Undefined, Str(<<>>), Str(<<"2">>), Str(<<"0">>), Str(<<"1", ".", "5">>),
     Str(<<"-", "1">>), Str(<<"x">>)}
LimitValues == PageValues
LengthValues == {Undefined, Str(<<>>), Str(<<"5">>), Str(<<"x">>)}

PageQueries ==
    [page : PageValues, limit : LimitValues, description_length : LengthValues,
     query_string : {Undefined}, all_words : {Undefined}]
SearchQueries ==
    [page : PageValues, limit : LimitValues, description_length : LengthValues,
     query_string : {Undefined, Str(<<"a">>)},
     all_words : {Undefined, Str(<<"o", "n">>), Str(<<"o", "f", "f">>)}]
LengthQueries ==
    [page : {Undefined}, limit : {Undefined}, description_length : LengthValues,
     query_string : {Undefined}, all_words : {Undefined}]

Alone == \A s \in Slots : inflight[s] = Idle

InitQuery ==
    /\ productsQueryMap = [attributes |-> BaseAttributes]
    /\ Product \in {SubSeq(Catalog, 1, n) : n \in 0..MaxProducts}
    /\ inflight = [s \in Slots |-> Idle]
    /\ last = NoOutcome

NextQuery ==
    \/ Alone /\ Quiet /\ \E q \in PageQueries : getAllProducts(q)
    \/ Alone /\ Quiet /\ \E q \in SearchQueries : searchProduct(q)
    \/ Alone /\ Quiet /\ \E id \in PathIds, q \in PageQueries : getProductsByCategory(id, q)
    \/ Alone /\ Quiet /\ \E id \in PathIds, q \in PageQueries : getProductsByDepartment(id, q)
    \/ Alone /\ Quiet /\ \E id \in PathIds, q \in LengthQueries : getProduct(id, q)
    \/ \E s \in Slots : DbResolve(s)
    \/ \E s \in Slots : DbReject(s)
    \/ Sent

SpecQuery == InitQuery /\ [][NextQuery]_vars


(***************************************************************************)
(* Properties.                                                             *)
(***************************************************************************)
Requests == {inflight[s] : s \in {t \in Slots : inflight[t] # Idle}}

Answered == last.req # Idle
Status == last.out[1].status
Body == last.out[1].body

\* the request made exactly one call on res or next:
\* res.status(status).json(body) with that object for body
Sends(status, body) ==
    /\ Len(last.out) = 1
    /\ last.out[1].fn = "res.status.json"
    /\ Status = status
    /\ ~last.out[1].array
    /\ Body = body

\* the same with that array for body
SendsArray(status, body) ==
    /\ Len(last.out) = 1
    /\ last.out[1].fn = "res.status.json"
    /\ Status = status
    /\ last.out[1].array
    /\ Body.items = body

\* the characters of a path or query value that is present
Chars(v) == v.s

\* C1: productsQueryMap.attributes is the six base columns in every state:
\* no handler adds to it, removes from it or reorders it.
C1_AttributesStayBase == productsQueryMap.attributes = BaseAttributes

\* the options a product handler builds for the request when the shared
\* attributes list is the six base columns
FreshOptions(r) ==
    LET len200 == Default(r.query.description_length, Num(200))
    IN CASE r.h = "getAllProducts" ->
              AllProductsQuery(BaseAttributes, r.page, r.limit,
                               r.query.description_length)
         [] r.h = "searchProduct" ->
              SearchQuery(BaseAttributes, r.page, r.limit, len200, r.query.all_words,
                          r.query.query_string)
         [] r.h = "getProductsByCategory" ->
              CategoryQuery(BaseAttributes, r.id, r.page, r.limit, len200)
         [] r.h = "getProductsByDepartment" ->
              DepartmentQuery(BaseAttributes, r.id, r.page, r.limit, len200)
         [] r.h = "getProduct" -> ProductQuery(BaseAttributes, len200)
         [] OTHER -> r.calls[1].options

\* C2: the options a request hands to the ORM depend on the request alone:
\* whatever ran before it or is suspended beside it, they are the options the
\* same request gets in a process that has served nothing yet.
C2_QueryDependsOnRequestOnly ==
    \A r \in Requests : r.calls[1].options = FreshOptions(r)

DetailHandlers ==
    {"getProduct", "getDepartment", "getSingleCategory", "getSingleAttribute",
     "getAttributeValues"}

EntityOf(h) ==
    CASE h = "getProduct" -> "Product"
      [] h = "getDepartment" -> "Department"
      [] h = "getSingleCategory" -> "Category"
      [] h \in {"getSingleAttribute", "getAttributeValues"} -> "Attribute"
      [] h \in {"getSingleTax", "getSingleTaxStub"} -> "Tax"

\* the row of the entity's table whose key is the number the id spells, if any
RowsWithId(entity, id) ==
    LET Hit(row) == Num(PrimaryKey(entity, row)) = StringToNumber(Chars(id))
    IN SelectSeq(Table(entity), Hit)

\* { error: { status: 404, message: "<Entity> with id <id> does not exist" } }
DocumentedNotFound(entity, id) ==
    [error |-> [status |-> 404,
                message |-> <<entity, " with id ">> \o Chars(id) \o <<" does not exist">>]]

\* the values of an attribute, as getAttributeValues lists them
ValuesOf(attribute) ==
    LET Mine(v) == v.attribute_id = attribute.attribute_id
        Shown(v) == [value |-> v.value, attribute_value_id |-> v.attribute_value_id]
        mine == SelectSeq(AttributeValueTable, Mine)
    IN [k \in 1..Len(mine) |-> Shown(mine[k])]

\* C3 as stated: a detail endpoint whose lookup resolved answers 404 with the
\* documented body when no row has the id, and 200 carrying the row when one
\* has; it makes that one call and never calls next.
C3_DetailRowOr404 ==
    (Answered /\ last.db = "resolved" /\ last.req.h \in DetailHandlers) =>
        LET rows == RowsWithId(EntityOf(last.req.h), last.req.id)
        IN IF rows = <<>>
           THEN Sends(404, DocumentedNotFound(EntityOf(last.req.h), last.req.id))
           ELSE Sends(200, rows[1])

\* C3 amended: as stated for getProduct, getDepartment, getSingleCategory and
\* getSingleAttribute; getAttributeValues answers a found attribute with 200
\* carrying the list of that attribute's values, not the attribute row.
C3_DetailRowOrValuesOr404 ==
    (Answered /\ last.db = "resolved" /\ last.req.h \in DetailHandlers) =>
        LET rows == RowsWithId(EntityOf(last.req.h), last.req.id)
        IN IF rows = <<>>
           THEN Sends(404, DocumentedNotFound(EntityOf(last.req.h), last.req.id))
           ELSE IF last.req.h = "getAttributeValues"
           THEN SendsArray(200, ValuesOf(rows[1]))
           ELSE Sends(200, rows[1])

\* a detail lookup that found no row has been answered 404
C3_Witness ==
    /\ Answered /\ last.db = "resolved" /\ last.req.h \in DetailHandlers
    /\ RowsWithId(EntityOf(last.req.h), last.req.id) = <<>>
    /\ Status = 404

\* C4: every version of getSingleTax answers 404 with "Tax with id <tax_id>
\* does not exist" when no tax has the id, and 200 with the tax record only
\* when one has.
C4_SingleTaxRowOr404 ==
    (Answered /\ last.req.h \in {"getSingleTax", "getSingleTaxStub"}
              /\ last.out[1].fn = "res.status.json") =>
        LET rows == RowsWithId("Tax", last.req.id)
        IN IF rows = <<>>
           THEN Sends(404, DocumentedNotFound("Tax", last.req.id))
           ELSE Sends(200, rows[1])

ListByParentHandlers ==
    {"getProductsByCategory", "getProductsByDepartment", "getDepartmentCategories",
     "getProductCategories", "getProductReviews", "getProductAttributes",
     "getProductAttributesStub"}

ParentOf(h) ==
    CASE h \in {"getProductsByCategory"} -> "Category"
      [] h \in {"getProductsByDepartment", "getDepartmentCategories"} -> "Department"
      [] OTHER -> "Product"

\* the request named a parent id that matches no record, and was answered
\* with a response (not forwarded to next, not refused for its query string)
UnknownParentAnswered ==
    /\ Answered /\ last.req.h \in ListByParentHandlers
    /\ RowsWithId(ParentOf(last.req.h), last.req.id) = <<>>
    /\ last.out[1].fn = "res.status.json"
    /\ Status # 400

PagedHandlers ==
    {"getAllProducts", "searchProduct", "getProductsByCategory",
     "getProductsByDepartment"}

\* the query parameters the handler validates
Validated(h) ==
    IF h \in PagedHandlers THEN {"page", "limit", "description_length"}
    ELSE IF h = "getProduct" THEN {"description_length"}
    ELSE {}

Supplied(v) == v # Undefined

\* the text of a decimal integer: an optional minus sign and one digit or more
IsIntegerText(v) ==
    /\ v.t = "string"
    /\ LET digits == IF v.s # <<>> /\ Head(v.s) = "-" THEN Tail(v.s) ELSE v.s
       IN digits # <<>> /\ AllDigits(digits)

\* one of the validated parameters is present and is not a valid integer
SomeNotInteger(r) ==
    \E f \in Validated(r.h) : Supplied(r.query[f]) /\ ~IsIntegerText(r.query[f])

\* one of the validated parameters is present and is not a number at all
SomeNotNumeric(r) ==
    \E f \in Validated(r.h) :
        Supplied(r.query[f]) /\ StringToNumber(Chars(r.query[f])).k = "nan"

\* the request was refused before any query was issued
Refused == Answered /\ last.req.calls = <<>> /\ Validated(last.req.h) # {}

DocumentedRefusal(h) ==
    IF h = "getProduct"
    THEN [err |-> "description_length should be valid integer values", status |-> FALSE]
    ELSE [err |-> "Query parameters should be valid integer values", status |-> FALSE]

\* C6: a request with a page, limit or description_length that is present
\* and not a valid integer is answered 400 with the documented body, and a
\* request is answered 400 only when one of them is present and not a valid
\* integer.
C6_RefusedIffNotInteger ==
    /\ \A r \in Requests : ~SomeNotInteger(r)
    /\ Refused => /\ Sends(400, DocumentedRefusal(last.req.h))
                  /\ SomeNotInteger(last.req)

\* C7: leaving parameters out is never the reason for a 400, and a request
\* that passed validation queries with limit 20 when limit was left out and
\* with offset 0 when page was left out.
C7_OmittedAreDefaulted ==
    /\ Refused => SomeNotNumeric(last.req)
    /\ \A r \in Requests :
          r.h \in PagedHandlers =>
              /\ ~Supplied(r.query.limit) => r.calls[1].options.limit = Num(20)
              /\ ~Supplied(r.query.page) => r.calls[1].options.offset = Num(0)

\* the number a pagination parameter asks for: its own value, or the default
\* when it is left out or left empty
Asked(v, dflt) == IF ~Supplied(v) \/ v.s = <<>> THEN Num(dflt) ELSE StringToNumber(v.s)

\* C8: every 200 of getAllProducts reports totalRecords = the table's count,
\* currentPage and currentPageSize = the page and limit asked for, and
\* totalPages = ceil(totalRecords / currentPageSize), a non-negative integer.
C8_PaginationMeta ==
    (Answered /\ last.req.h = "getAllProducts" /\ last.db = "resolved") =>
        LET meta == Body.paginationMeta
        IN /\ Status = 200
           /\ meta.totalRecords = Len(Product)
           /\ meta.currentPage = Asked(last.req.query.page, 1)
           /\ meta.currentPageSize = Asked(last.req.query.limit, 20)
           /\ IsInteger(meta.totalPages) /\ meta.totalPages.n >= 0
           /\ meta.totalPages = Ceil(Div(Num(meta.totalRecords), meta.currentPageSize))

IsOn(v) == v.t = "string" /\ v.s = <<"o", "n">>

\* the products a search for the text should list, in table order
Found(text, exact) ==
    LET Hit(row) ==
            IF exact THEN row.name = text
            ELSE \E i \in 1..Len(row.name), j \in 0..Len(row.name) :
                     SubSeq(row.name, i, j) = text
    IN SelectSeq(Product, Hit)

\* C9: searchProduct filters on the name alone, by equality with
\* query_string when all_words is exactly "on" and by containment otherwise,
\* and a resolved search answers 200 with the products that pass the filter,
\* cut to the window of its limit and offset.
C9_SearchFilter ==
    /\ \A r \in Requests :
          (r.h = "searchProduct" /\ Supplied(r.query.query_string)) =>
              LET where == r.calls[1].options.where
              IN /\ DOMAIN where = {"name"}
                 /\ where.name.op = IF IsOn(r.query.all_words) THEN "eq" ELSE "substring"
                 /\ where.name.value = Chars(r.query.query_string)
    /\ (Answered /\ last.req.h = "searchProduct" /\ last.db = "resolved"
                 /\ Supplied(last.req.query.query_string)) =>
          LET options == last.req.calls[1].options
              found == Found(Chars(last.req.query.query_string),
                             IsOn(last.req.query.all_words))
          IN SendsArray(200, SubSeq(found, options.offset.n + 1,
                                    Min(Len(found), options.offset.n + options.limit.n)))

\* an exact-name search was answered with the one product of that name,
\* where a containment search would have listed more
C9_Witness ==
    /\ Answered /\ last.req.h = "searchProduct" /\ last.db = "resolved"
    /\ IsOn(last.req.query.all_words)
    /\ Supplied(last.req.query.query_string)
    /\ Status = 200 /\ Len(Body.items) = 1
    /\ Len(Found(Chars(last.req.query.query_string), FALSE)) > 1


(***************************************************************************)
(* The same machine under the premise that the database settles every      *)
(* call it was handed: it resolves or rejects it after finitely many       *)
(* steps.                                                                  *)
(***************************************************************************)
FairSpec == Spec /\ \A s \in Slots : WF_vars(DbReject(s) \/ DbResolve(s))

\* the one call a finished request made on res or next
OneOutcome ==
    Answered =>
        /\ Len(last.out) = 1
        /\ \/ last.out[1].fn = "next"
           \/ last.out[1].fn = "res.status.json" /\ Status \in {200, 404, 400}

\* a request leaves its slot only by emitting its outcome
LeavesWithOutcome ==
    \A s \in Slots :
        (inflight[s] # Idle /\ inflight'[s] # inflight[s]) =>
            /\ inflight'[s] = Idle
            /\ last'.req = inflight[s]
            /\ Len(last'.out) = 1

\* C10: every request ends in exactly one of res.status(200).json,
\* res.status(404).json, res.status(400).json and next(error), called once,
\* never a response and next together; and when the database settles every
\* call, every request that started reaches its outcome.
C10_ExactlyOneOutcome ==
    /\ []OneOutcome
    /\ [][LeavesWithOutcome]_vars
    /\ \A s \in Slots : (inflight[s] # Idle) ~> (inflight[s] = Idle)

\* a request whose query the database rejected ended in next(error) alone
C10_Witness ==
    /\ Answered /\ last.db = "rejected"
    /\ Len(last.out) = 1 /\ last.out[1].fn = "next"

\* the step rejected a call: the request that leaves is the one that was
\* suspended in some slot, that slot is freed and no other slot changes, so
\* the query is not issued again
RejectedLeaves ==
    last'.db = "rejected" =>
        \E s \in Slots :
            /\ inflight[s] = last'.req
            /\ inflight' = [inflight EXCEPT ![s] = Idle]

\* C11: a request whose database call rejected calls next with the error the
\* call rejected with, once, sends no status and no body, and issues no
\* second query.
C11_RejectionIsForwardedOnce ==
    /\ [](last.db = "rejected" =>
              /\ last.out = <<NextError(DbError)>>
              /\ Len(last.req.calls) = 1)
    /\ [][RejectedLeaves]_vars

\* the query of getProductCategories was rejected and the error forwarded
C11_Witness ==
    /\ last.db = "rejected" /\ last.req.h = "getProductCategories"
    /\ last.out[1].fn = "next" /\ last.out[1].body = DbError

\* C12: every request that passed validation has issued exactly one ORM call
\* (findAll, findByPk or findAndCountAll) when it is suspended and when it
\* ends, and a request answered 400 has issued none.
C12_OneQueryPerRequest ==
    /\ \A r \in Requests :
          /\ Len(r.calls) = 1
          /\ r.calls[1].method \in {"findAll", "findByPk", "findAndCountAll"}
    /\ Answered =>
          IF last.out[1].fn = "res.status.json" /\ Status = 400
          THEN last.req.calls = <<>>
          ELSE Len(last.req.calls) = 1

\* a paginated list endpoint answered its resolved query
PagedAnswered == Answered /\ last.req.h \in PagedHandlers /\ last.db = "resolved"

\* the body is an object with exactly these keys
ObjectWith(keys) ==
    /\ Len(last.out) = 1
    /\ last.out[1].fn = "res.status.json"
    /\ ~last.out[1].array
    /\ DOMAIN Body = keys

\* C13 as stated: every 200 of getAllProducts, searchProduct,
\* getProductsByCategory and getProductsByDepartment is an object carrying
\* rows, paginationMeta and status: true.
C13_PagedShapeEverywhere ==
    PagedAnswered =>
        /\ Status = 200
        /\ ObjectWith({"rows", "paginationMeta", "status"})
        /\ Body.status = TRUE

\* C13: of the endpoints that take page and limit only getAllProducts
\* answers 200 with { rows, paginationMeta, status: true }; searchProduct
\* answers 200 with the bare array of products, and getProductsByCategory and
\* getProductsByDepartment answer 200 with { rows } alone.
C13_PagedShapes ==
    PagedAnswered =>
        /\ Status = 200
        /\ CASE last.req.h = "getAllProducts" ->
                  /\ ObjectWith({"rows", "paginationMeta", "status"})
                  /\ Body.status = TRUE
                  /\ DOMAIN Body.paginationMeta =
                         {"currentPage", "currentPageSize", "totalPages", "totalRecords"}
             [] last.req.h = "searchProduct" ->
                  SendsArray(200, DbResult(last.req.calls[1]))
             [] OTHER ->
                  /\ ObjectWith({"rows"})
                  /\ Len(Body.rows) = Len(DbResult(last.req.calls[1]))

\* a search with page and limit was answered 200 with a bare array that
\* holds a product
C13_Witness ==
    /\ PagedAnswered /\ last.req.h = "searchProduct"
    /\ Supplied(last.req.query.page) /\ Supplied(last.req.query.limit)
    /\ Status = 200 /\ last.out[1].array /\ Len(Body.items) > 0

\* the elements getProductAttributes is to list for a product: one for each
\* ProductAttribute row of that product, in row order
AttributesListed(id) ==
    LET OfProduct(r) == Num(r.product_id) = StringToNumber(Chars(id))
        ValueOf(r) ==
            CHOOSE v \in {AttributeValueTable[i] : i \in 1..Len(AttributeValueTable)} :
                v.attribute_value_id = r.attribute_value_id
        NameOf(v) ==
            (CHOOSE a \in {AttributeTable[i] : i \in 1..Len(AttributeTable)} :
                 a.attribute_id = v.attribute_id).name
        Element(r) == [attribute_value_id |-> r.attribute_value_id,
                       attribute_value |-> ValueOf(r).value,
                       attribute_name |-> NameOf(ValueOf(r))]
        mine == SelectSeq(ProductAttributeTable, OfProduct)
    IN [k \in 1..Len(mine) |-> Element(mine[k])]

\* either implementation of getProductAttributes answered
AttributesAnswered ==
    /\ Answered /\ last.db # "rejected"
    /\ last.req.h \in {"getProductAttributes", "getProductAttributesStub"}

\* C14: every implementation of getProductAttributes answers 200 with an
\* array of one {attribute_value_id, attribute_value, attribute_name} for
\* each ProductAttribute row of the path product_id, empty when it has none.
C14_ProductAttributesList ==
    AttributesAnswered => SendsArray(200, AttributesListed(last.req.id))

\* the ProductCategory rows of a product, in row order
CategoryRowsOf(id) ==
    LET OfProduct(r) == Num(r.product_id) = StringToNumber(Chars(id))
    IN SelectSeq(ProductCategoryTable, OfProduct)

\* the category with that id, as its three columns
CategoryColumns(category_id) ==
    LET c == CHOOSE x \in {CategoryTable[i] : i \in 1..Len(CategoryTable)} :
                 x.category_id = category_id
    IN [name |-> c.name, category_id |-> c.category_id,
        department_id |-> c.department_id]

CategoriesAnswered ==
    Answered /\ last.req.h = "getProductCategories" /\ last.db = "resolved"

\* C15: getProductCategories answers a product that has ProductCategory rows
\* with 200 and the Category (name, category_id, department_id) of the first
\* row, nothing of the other rows, and a product that has none with 404
\* 'Category not found'.
C15_FirstCategoryOr404 ==
    CategoriesAnswered =>
        IF CategoryRowsOf(last.req.id) # <<>>
        THEN /\ Sends(200, CategoryColumns(CategoryRowsOf(last.req.id)[1].category_id))
             /\ DOMAIN Body = {"name", "category_id", "department_id"}
        ELSE Sends(404, [error |-> [status |-> 404,
                                    message |-> <<"Category not found">>]])

\* a product in two categories was answered with the first of them only
C15_Witness ==
    /\ CategoriesAnswered
    /\ Len(CategoryRowsOf(last.req.id)) = 2
    /\ Status = 200
    /\ Body.category_id = CategoryRowsOf(last.req.id)[1].category_id
    /\ Body.category_id # CategoryRowsOf(last.req.id)[2].category_id

\* the integer part of a finite number
IntegerPart(x) == Num(Sign(x) * (Abs(x.n) \div x.d))

\* the window a request asks for: limit is the integer value of its limit
\* (20 when left out) and offset is (page - 1) times that integer (page 1
\* when left out)
WindowAsked(r) ==
    LET limit == IntegerPart(Asked(r.query.limit, 20))
    IN [limit |-> limit,
        offset |-> NumMul(NumSub(Asked(r.query.page, 1), Num(1)), limit)]

\* C16: every request to a paginated endpoint that passed validation hands
\* the ORM limit = the integer value of the requested limit and
\* offset = (page - 1) * limit computed with that same integer limit.
C16_WindowIsPageBlock ==
    \A r \in Requests :
        r.h \in PagedHandlers =>
            /\ r.calls[1].options.limit = WindowAsked(r).limit
            /\ r.calls[1].options.offset = WindowAsked(r).offset

\* the form of getAllProducts and searchProduct on a query: page and limit
\* are defaulted with ||, then validated, then limit and offset are computed
DefaultThenCompute(q) ==
    LET limit == Or(q.limit, Num(20))
        page == Or(q.page, Num(1))
        sqlQueryMap == SearchQuery(BaseAttributes, page, limit, Num(200),
                                   q.all_words, q.query_string)
    IN [invalid |-> QueryInvalid(page, limit, Num(200)),
        limit |-> sqlQueryMap.limit, offset |-> sqlQueryMap.offset]

\* the form of getProductsByCategory and getProductsByDepartment: page and
\* limit get destructuring defaults, are validated, and limit and offset are
\* computed with their own ||
DestructuringDefault(q) ==
    LET page == Default(q.page, Num(1))
        limit == Default(q.limit, Num(20))
        queryMap == CategoryQuery(BaseAttributes, Undefined, page, limit, Num(200))
    IN [invalid |-> QueryInvalid(page, limit, Num(200)),
        limit |-> queryMap.limit, offset |-> queryMap.offset]

\* the form the handler uses
FormOf(r) ==
    IF r.h \in {"getAllProducts", "searchProduct"} THEN DefaultThenCompute(r.query)
    ELSE DestructuringDefault(r.query)

\* the two forms agree on the query
SameWindow(q) ==
    /\ DefaultThenCompute(q).invalid = DestructuringDefault(q).invalid
    /\ ~DefaultThenCompute(q).invalid =>
           /\ DefaultThenCompute(q).limit = DestructuringDefault(q).limit
           /\ DefaultThenCompute(q).offset = DestructuringDefault(q).offset

\* C17: on the page and limit of every request (absent, empty or a numeric
\* string, and any other text too) the defaulting-then-compute form and the
\* destructuring-default form give the same validation verdict and the same
\* limit and offset; and each handler's query carries the limit and offset
\* of its form, a request being refused when its form refuses page or limit.
C17_TwoFormsAgree ==
    /\ \A r \in Requests :
          r.h \in PagedHandlers =>
              /\ SameWindow(r.query)
              /\ ~FormOf(r).invalid
              /\ r.calls[1].options.limit = FormOf(r).limit
              /\ r.calls[1].options.offset = FormOf(r).offset
    /\ (Refused /\ last.req.h \in PagedHandlers) =>
          /\ SameWindow(last.req.query)
          /\ FormOf(last.req).invalid
                 \/ isNaN(IF last.req.h = "getAllProducts"
                          THEN last.req.query.description_length
                          ELSE Default(last.req.query.description_length, Num(200)))

\* getProductsByCategory was asked for page 2 with an empty limit: its
\* destructuring default leaves the empty limit in place, and its window is
\* the one getAllProducts computes, limit 20 from offset 20
C17_Witness ==
    \E r \in Requests :
        /\ r.h = "getProductsByCategory"
        /\ r.query.limit = Str(<<>>) /\ r.query.page = Str(<<"2">>)
        /\ r.limit = Str(<<>>)
        /\ r.calls[1].options.limit = Num(20)
        /\ r.calls[1].options.offset = Num(20)
        /\ DefaultThenCompute(r.query).offset = Num(20)

\* the Review rows of a product, in row order
ReviewRowsOf(id) ==
    LET OfProduct(r) == Num(r.product_id) = StringToNumber(Chars(id))
    IN SelectSeq(ReviewTable, OfProduct)

\* the products with that id
Reviewed(product_id) ==
    {Product[i] : i \in {j \in 1..Len(Product) : Product[j].product_id = product_id}}

\* a review with the name of the product it reviews
NamedReview(r) ==
    [created_on |-> r.created_on, review |-> r.review, rating |-> r.rating,
     name |-> (CHOOSE p \in Reviewed(r.product_id) : TRUE).name]

ReviewsAnswered ==
    Answered /\ last.req.h = "getProductReviews" /\ last.db = "resolved"

\* C18: getProductReviews answers 200 with one element per Review row of the
\* path product_id, each holding created_on, review, rating and the name of
\* the reviewed product; when a row has no product to join, the exception is
\* forwarded through next(error) and no response is sent.
C18_ReviewsNamedOrForwarded ==
    ReviewsAnswered =>
        IF \E i \in 1..Len(ReviewRowsOf(last.req.id)) :
               Reviewed(ReviewRowsOf(last.req.id)[i].product_id) = {}
        THEN /\ Len(last.out) = 1
             /\ last.out[1].fn = "next"
             /\ last.out[1].body.t = "error"
        ELSE SendsArray(200, [k \in 1..Len(ReviewRowsOf(last.req.id)) |->
                                 NamedReview(ReviewRowsOf(last.req.id)[k])])

\* the reviews of a product that is gone were asked for, and the TypeError
\* of reading its name was forwarded
C18_Witness ==
    /\ ReviewsAnswered
    /\ ReviewRowsOf(last.req.id) # <<>>
    /\ Reviewed(ReviewRowsOf(last.req.id)[1].product_id) = {}
    /\ last.out = <<NextError(TypeError)>>

\* C19: every request to a paginated endpoint that passed validation hands
\* the ORM a limit that is an integer >= 1 and an offset that is an
\* integer >= 0.
C19_WindowIsWellFormed ==
    \A r \in Requests :
        r.h \in PagedHandlers =>
            /\ IsInteger(r.calls[1].options.limit)
            /\ r.calls[1].options.limit.n >= 1
            /\ IsInteger(r.calls[1].options.offset)
            /\ r.calls[1].options.offset.n >= 0

\* a page or limit that stands for a positive integer: left out or empty
\* (the default), or the text of an integer >= 1
PositiveWhole(v) ==
    \/ ~Supplied(v)
    \/ v.s = <<>>
    \/ IsIntegerText(v) /\ StringToNumber(v.s).n >= 1

\* the rows getAllProducts answers for page p of the table, with the limit
\* of the query as it arrived
PageRows(p, limit) ==
    DbResult(OrmCall("Product", "findAndCountAll", Undefined,
                     AllProductsQuery(BaseAttributes, Str(NatToChars(p)),
                                      Or(limit, Num(20)), Str(<<"5">>)))).rows

\* the pages 1..total whose rows hold the product
PagesHolding(product, total, limit) ==
    {p \in 1..total :
        \E k \in 1..Len(PageRows(p, limit)) : PageRows(p, limit)[k] = product}

\* getAllProducts answered a request for a positive page with a positive limit
PageAnswered ==
    /\ Answered /\ last.req.h = "getAllProducts" /\ last.db = "resolved"
    /\ PositiveWhole(last.req.query.page)
    /\ PositiveWhole(last.req.query.limit)

PageAsked == Asked(last.req.query.page, 1).n
LimitAsked == Asked(last.req.query.limit, 20).n

\* C20: with the product table unchanged and a positive integer limit, the
\* rows of getAllProducts for page p are the p-th block of limit products,
\* so that the pages 1..totalPages partition the table (each product is in
\* the rows of exactly one page, no page has more than limit rows), and a
\* page beyond totalPages is answered 200 with empty rows and the same
\* totalRecords.
C20_PagesPartition ==
    PageAnswered =>
        /\ Status = 200
        /\ Body.rows = PageRows(PageAsked, last.req.query.limit)
        /\ Body.rows = SubSeq(Product, (PageAsked - 1) * LimitAsked + 1,
                              Min(Len(Product), PageAsked * LimitAsked))
        /\ Len(Body.rows) <= LimitAsked
        /\ Body.paginationMeta.totalRecords = Len(Product)
        /\ \A i \in 1..Len(Product) :
              Cardinality(PagesHolding(Product[i], Body.paginationMeta.totalPages.n,
                                       last.req.query.limit)) = 1
        /\ \A p \in 1..Body.paginationMeta.totalPages.n :
              Len(PageRows(p, last.req.query.limit)) <= LimitAsked
        /\ PageAsked > Body.paginationMeta.totalPages.n => Body.rows = <<>>

\* page 2 of three products by limit 2 was answered with the third product
C20_Witness ==
    /\ PageAnswered
    /\ Len(Product) = 3 /\ PageAsked = 2 /\ LimitAsked = 2
    /\ Body.paginationMeta.totalPages = Num(2)
    /\ Body.rows = <<Product[3]>>

\* the attribute lists a call hands to the ORM: its own and those of its
\* includes
AttributeLists(options) ==
    (IF "attributes" \in DOMAIN options THEN {options.attributes} ELSE {})
        \cup (IF "include" \in DOMAIN options
              THEN {options.include[k].attributes : k \in 1..Len(options.include)}
              ELSE {})

\* the lengths spliced into the SUBSTRING literals of an attribute list
LengthsIn(list) ==
    {list[k].arg : k \in {j \in 1..Len(list) : list[j].kind = "literal"}}

\* the lengths spliced into the SUBSTRING literals of a call
SplicedLengths(call) ==
    UNION {LengthsIn(list) : list \in AttributeLists(call.options)}

\* text that Number() reads as a number and that is not empty or blank
NumericText(chars) ==
    /\ TrimLeft(chars) # <<>>
    /\ StringToNumber(chars).k # "nan"

\* C21: every query that carries a SUBSTRING(description, 1, <n>) literal
\* carries for <n> a non-empty numeric text: no request reaches the ORM with
\* an absent, empty or non-numeric description_length spliced into the SQL.
C21_SplicedLengthIsNumeric ==
    \A r \in Requests :
        \A n \in SplicedLengths(r.calls[1]) : NumericText(n)

====
